---------------------------- MODULE Spec2Model ----------------------------
(***************************************************************************)
(* Model of the movie recommender API (src/main.py): the startup load of   *)
(* the similarity index, the Title Resolver, the Similarity Ranker and the *)
(* /movie/search orchestrator (search_bundle) with its fallback policy.    *)
(*                                                                         *)
(* Titles are sequences of one-character strings.  Row ids are 0-based as  *)
(* in the source; row r of df / tfidf_matrix is element r+1 of the         *)
(* sequence that models it.  Scores are integers (dot products of integer  *)
(* feature vectors).                                                       *)
(***************************************************************************)
EXTENDS Integers, Sequences, FiniteSets, TLC

VARIABLES
    indices,        \* content of indices.pkl as unpickled by load_pickles
    df,             \* global df: the row table (sequence of titles)
    tfidf_matrix,   \* global tfidf_matrix: one feature vector per row
    TITLE_TO_IDX,   \* global TITLE_TO_IDX: normalized title -> row id
    started,        \* TRUE once the startup event (load_pickles) has run
    call,           \* a direct call of the resolver or of the ranker
    req             \* in-flight /movie/search requests, by request id

vars == <<indices, df, tfidf_matrix, TITLE_TO_IDX, started, call, req>>

index_vars == <<indices, df, tfidf_matrix, TITLE_TO_IDX>>

\* Python's None, for the globals before startup.
None == "None"

\* Optional values of the helpers: Some(v) or Absent (None).
Some(v) == [kind |-> "some", val |-> v]
Absent == [kind |-> "none", val |-> <<>>]

-----------------------------------------------------------------------------
(* Bounds of the model.                                                    *)

MaxQueryLen == 3        \* longest title passed to the resolver directly
MaxIndexTitles == 2     \* most entries of indices.pkl in the resolver runs
MaxMatrixRows == 3      \* most rows of tfidf_matrix in the ranker runs
MaxTopN == 2            \* top_n ranges over -MaxTopN..MaxTopN
MaxGenreResults == 2    \* most results of a /discover/movie response
MaxGenreLimit == 2      \* genre_limit ranges over -1..MaxGenreLimit

-----------------------------------------------------------------------------
(* Characters and titles.                                                  *)

Alphabet == {" ", "A", "a", "b"}

\* Code point order of the characters, as Python compares strings.
CharCode(c) ==
    CASE c = " " -> 32
      [] c = "A" -> 65
      [] c = "B" -> 66
      [] c = "a" -> 97
      [] c = "b" -> 98

TitlesUpTo(n) == UNION {[1..k -> Alphabet] : k \in 0..n}

RECURSIVE LStrip(_)
LStrip(s) ==
    IF s # <<>> /\ Head(s) = " " THEN LStrip(Tail(s)) ELSE s

RECURSIVE RStrip(_)
RStrip(s) ==
    IF s # <<>> /\ s[Len(s)] = " " THEN RStrip(SubSeq(s, 1, Len(s) - 1)) ELSE s

\* str.strip()
Strip(s) == RStrip(LStrip(s))

LowerChar(c) ==
    CASE c = "A" -> "a"
      [] c = "B" -> "b"
      [] OTHER -> c

\* str.lower()
Lower(s) == [k \in 1..Len(s) |-> LowerChar(s[k])]

\* _norm_title: str(t).strip().lower()
_norm_title(t) == Lower(Strip(t))

\* Python's < on strings: lexicographic by code point, a proper prefix first.
RECURSIVE StrLess(_, _)
StrLess(s, t) ==
    IF t = <<>> THEN FALSE
    ELSE IF s = <<>> THEN TRUE
    ELSE IF CharCode(Head(s)) # CharCode(Head(t))
         THEN CharCode(Head(s)) < CharCode(Head(t))
    ELSE StrLess(Tail(s), Tail(t))

-----------------------------------------------------------------------------
(* difflib.SequenceMatcher, as get_close_matches uses it: seq1 = a is the  *)
(* candidate key, seq2 = b is the word; no junk (strings are far shorter   *)
(* than the 200 elements at which autojunk starts).  Positions are 1-based *)
(* and the ranges [alo, ahi) and [blo, bhi) are half-open as in difflib.   *)

\* Length of the common run of a and b that starts at a[i], b[j].
RECURSIVE RunLen(_, _, _, _, _, _)
RunLen(a, b, i, j, ahi, bhi) ==
    IF i < ahi /\ j < bhi /\ a[i] = b[j]
    THEN 1 + RunLen(a, b, i + 1, j + 1, ahi, bhi)
    ELSE 0

\* find_longest_match: the longest block; of those the one starting earliest
\* in a; of those the one starting earliest in b.  <<alo, blo, 0>> if none.
LongestOf(cand, alo, blo) ==
    LET best == {c \in cand : c[3] > 0 /\
                    \A d \in cand :
                        \/ d[3] < c[3]
                        \/ d[3] = c[3] /\ (c[1] < d[1] \/ (c[1] = d[1] /\ c[2] <= d[2]))}
    IN  IF best = {} THEN <<alo, blo, 0>> ELSE CHOOSE c \in best : TRUE

find_longest_match(a, b, alo, ahi, blo, bhi) ==
    LongestOf({<<i, j, RunLen(a, b, i, j, ahi, bhi)>> :
                  i \in alo..(ahi - 1), j \in blo..(bhi - 1)}, alo, blo)

\* Sum of the sizes of get_matching_blocks over [alo, ahi) x [blo, bhi):
\* the longest block m = <<i, j, k>>, then the pieces left and right of it.
RECURSIVE MatchCount(_, _, _, _, _, _)
RECURSIVE MatchSplit(_, _, _, _, _, _, _)
MatchSplit(a, b, alo, ahi, blo, bhi, m) ==
    IF m[3] = 0 THEN 0
    ELSE m[3]
         + (IF alo < m[1] /\ blo < m[2]
            THEN MatchCount(a, b, alo, m[1], blo, m[2]) ELSE 0)
         + (IF m[1] + m[3] < ahi /\ m[2] + m[3] < bhi
            THEN MatchCount(a, b, m[1] + m[3], ahi, m[2] + m[3], bhi) ELSE 0)

MatchCount(a, b, alo, ahi, blo, bhi) ==
    MatchSplit(a, b, alo, ahi, blo, bhi,
               find_longest_match(a, b, alo, ahi, blo, bhi))

\* SequenceMatcher.ratio() = 2.0 * matches / length, 1.0 when length is 0,
\* kept as the exact fraction <<numerator, denominator>>.
ratio(a, b) ==
    IF Len(a) + Len(b) = 0 THEN <<1, 1>>
    ELSE <<2 * MatchCount(a, b, 1, Len(a) + 1, 1, Len(b) + 1), Len(a) + Len(b)>>

\* cutoff=0.6 of get_best_local_title, as the fraction 6/10.
CutoffNum == 6
CutoffDen == 10

FracGeq(r, num, den) == r[1] * den >= num * r[2]
FracLess(r, s) == r[1] * s[2] < s[1] * r[2]

-----------------------------------------------------------------------------
(* The title index and the Title Resolver.                                 *)

Keys(ind) == {_norm_title(ind[k][1]) : k \in 1..Len(ind)}

\* Position of the last entry of ind whose title normalizes to key.
LastPos(ind, key) ==
    CHOOSE k \in 1..Len(ind) :
        /\ _norm_title(ind[k][1]) = key
        /\ \A m \in (k + 1)..Len(ind) : _norm_title(ind[m][1]) # key

\* A map in which the first entry of a normalized key wins (not the code).
build_title_to_idx_map_first(ind) ==
    [key \in Keys(ind) |->
        ind[CHOOSE k \in 1..Len(ind) :
                /\ _norm_title(ind[k][1]) = key
                /\ \A m \in 1..(k - 1) : _norm_title(ind[m][1]) # key][2]]

\* build_title_to_idx_map: a dict comprehension over indices.items(), so a
\* later entry with the same normalized key replaces an earlier one.
build_title_to_idx_map(ind) ==
    [key \in Keys(ind) |-> ind[LastPos(ind, key)][2]]

\* Of the scored candidates <<key, ratio>> those at or above the floor
\* num/den, then the greatest (ratio, key) tuple, as heapq.nlargest(1, ...)
\* finds it: the greatest ratio, and of equal ratios the greatest key.
BestAtFloor(scored, num, den) ==
    LET result == {c \in scored : FracGeq(c[2], num, den)}
    IN  {c[1] : c \in {c \in result :
            \A d \in result \ {c} :
                \/ FracLess(d[2], c[2])
                \/ ~FracLess(c[2], d[2]) /\ StrLess(d[1], c[1])}}

\* A matcher that wants a ratio above the floor, not at it (not the code).
get_close_matches_strict(word, possibilities) ==
    BestAtFloor({c \in {<<x, ratio(x, word)>> : x \in possibilities} :
                    FracLess(<<CutoffNum, CutoffDen>>, c[2])},
                CutoffNum, CutoffDen)

\* difflib.get_close_matches(word, possibilities, n=1, cutoff=0.6): the
\* candidates whose ratio reaches the cutoff, then heapq.nlargest(1, ...) of
\* the (ratio, key) tuples: the greatest ratio, and of equal ratios the
\* greatest key.  The empty set stands for the empty list.
get_close_matches(word, possibilities) ==
    BestAtFloor({<<x, ratio(x, word)>> : x \in possibilities},
                CutoffNum, CutoffDen)

FirstOrNone(matches) ==
    IF matches # {} THEN Some(CHOOSE x \in matches : TRUE) ELSE Absent

\* get_best_local_title: matches[0] if matches else None
get_best_local_title(title, t2i) ==
    FirstOrNone(get_close_matches(_norm_title(title), DOMAIN t2i))

Ok(v) == [kind |-> "ok", val |-> v]
HTTPException(status) == [kind |-> "HTTPException", val |-> status]

\* Lines 170-173: the row of the fuzzy match if there is one (an empty
\* match string is falsy), else 404 "Title not in dataset".
FuzzyRow(fuzzy, t2i) ==
    IF fuzzy.kind = "some" /\ fuzzy.val # <<>> THEN Ok(t2i[fuzzy.val])
    ELSE HTTPException(404)

\* get_local_idx_by_title: the exact normalized key first, then the fuzzy
\* match.
get_local_idx_by_title(title, t2i) ==
    IF _norm_title(title) \in DOMAIN t2i THEN Ok(t2i[_norm_title(title)])
    ELSE FuzzyRow(get_best_local_title(title, t2i), t2i)

-----------------------------------------------------------------------------
(* Startup and the direct resolver call.                                   *)

NoDetails == [title |-> <<>>, genres |-> <<>>]

\* Stands for None where a TMDBMovieCard is optional; real ids are positive.
NoCard == [tmdb_id |-> 0, title |-> <<>>]

Requests == {"r1", "r2"}

NoBundle ==
    [query |-> "", movie_details |-> NoDetails,
     tfidf_recommendations |-> <<>>, genre_recommendations |-> <<>>]

NoResponse == [status |-> 0, bundle |-> NoBundle]

IdleRequest ==
    [pc |-> "idle", query |-> "", tfidf_top_n |-> 0, genre_limit |-> 0,
     details |-> NoDetails, recs |-> <<>>, tfidf_items |-> <<>>,
     genre_recs |-> <<>>, response |-> NoResponse, log |-> <<>>]

\* Module-level globals before the startup event; no request in flight.
Init ==
    /\ indices = None
    /\ df = None
    /\ tfidf_matrix = None
    /\ TITLE_TO_IDX = None
    /\ started = FALSE
    /\ call = [op |-> "idle"]
    /\ req = [r \in Requests |-> IdleRequest]

\* load_pickles: the startup event; runs once, before any request.
load_pickles(dfv, ind, mat) ==
    /\ ~started
    /\ started' = TRUE
    /\ df' = dfv
    /\ indices' = ind
    /\ TITLE_TO_IDX' = build_title_to_idx_map(ind)
    /\ tfidf_matrix' = mat
    /\ UNCHANGED <<call, req>>

\* The pickles of a run: k rows whose titles are distinct, the index mapping
\* the title of row r to r as the offline build writes it.
IndexInputs(n, titles) ==
    {ind \in UNION {[1..k -> titles \X (0..(n - 1))] : k \in 1..n} :
        /\ \A k \in 1..Len(ind) : ind[k][2] = k - 1
        /\ \A k, m \in 1..Len(ind) : k # m => ind[k][1] # ind[m][1]}

DfOf(ind) == [k \in 1..Len(ind) |-> ind[k][1]]

UnitMatrix(n) == [k \in 1..n |-> <<1>>]

\* Titles of the offline dataset in the resolver runs: three spellings of one
\* title (case, trailing blank), near misses of it, a blank title, and a long
\* title whose ratio to a three-letter piece of it is exactly 0.6.
LoadedTitles ==
    { <<"a", "b">>, <<"A", "b">>, <<"a", "b", " ">>,
      <<"a">>, <<"b">>, <<"b", "a">>, <<" ">>,
      <<"a", "b", "a", "b", "a", "b", "b">> }

LoadForResolver ==
    \E ind \in IndexInputs(MaxIndexTitles, LoadedTitles) :
        load_pickles(DfOf(ind), ind, UnitMatrix(Len(ind)))

\* A call get_local_idx_by_title(title) on the loaded index.
ResolveCall ==
    /\ started
    /\ call.op = "idle"
    /\ \E title \in TitlesUpTo(MaxQueryLen) :
          call' = [op |-> "resolve", title |-> title,
                   result |-> get_local_idx_by_title(title, TITLE_TO_IDX)]
    /\ UNCHANGED <<index_vars, started, req>>

NextResolver == LoadForResolver \/ ResolveCall

SpecResolver == Init /\ [][NextResolver]_vars

-----------------------------------------------------------------------------
(* The Similarity Ranker.                                                  *)

RECURSIVE Dot(_, _)
Dot(u, v) == IF u = <<>> THEN 0 ELSE Head(u) * Head(v) + Dot(Tail(u), Tail(v))

\* scores = (tfidf_matrix @ qv.T).toarray().ravel(); scores[r + 1] is the
\* score of row r against row idx.
Scores(mat, idx) == [k \in 1..Len(mat) |-> Dot(mat[k], mat[idx + 1])]

Perms(n) ==
    {p \in [1..n -> 0..(n - 1)] : \A i, j \in 1..n : i # j => p[i] # p[j]}

\* Position of row r in the permutation tie.
PosIn(tie, r) == CHOOSE k \in 1..Len(tie) : tie[k] = r

\* np.argsort(-scores) with the default kind ("quicksort", which numpy
\* documents as not stable): the rows by descending score; which of several
\* equal-score rows comes first is left to the build, here the permutation tie
\* of the rows that ranks them.
ArgsortDescending(scores, tie) ==
    CHOOSE p \in Perms(Len(scores)) :
        \A k \in 1..(Len(scores) - 1) :
            \/ scores[p[k] + 1] > scores[p[k + 1] + 1]
            \/ /\ scores[p[k] + 1] = scores[p[k + 1] + 1]
               /\ PosIn(tie, p[k]) < PosIn(tie, p[k + 1])

\* The loop of tfidf_recommend_titles from position k of order: skip the
\* query row, append, and stop once len(out) >= top_n (tested after the
\* append).  An item keeps its row id next to (title, score).
RECURSIVE CollectTop(_, _, _, _, _, _, _)
CollectTop(order, k, idx, top_n, scores, dfv, out) ==
    IF k > Len(order) THEN out
    ELSE IF order[k] = idx
         THEN CollectTop(order, k + 1, idx, top_n, scores, dfv, out)
    ELSE LET i == order[k]
             out2 == Append(out, [title |-> dfv[i + 1],
                                  score |-> scores[i + 1],
                                  row |-> i])
         IN  IF Len(out2) >= top_n THEN out2
             ELSE CollectTop(order, k + 1, idx, top_n, scores, dfv, out2)

\* Lines 178-189 for the resolved row idx.
RankRow(idx, top_n, scores, tie) ==
    CollectTop(ArgsortDescending(scores, tie), 1, idx, top_n, scores, df, <<>>)

RankResolved(r, top_n, tie) ==
    IF r.kind # "ok" THEN r
    ELSE Ok(RankRow(r.val, top_n, Scores(tfidf_matrix, r.val), tie))

\* tfidf_recommend_titles on the globals, under the build's tie order; the
\* resolver's 404 propagates.
tfidf_recommend_titles(title, top_n, tie) ==
    RankResolved(get_local_idx_by_title(title, TITLE_TO_IDX), top_n, tie)

FeatureVectors == {<<0, 0>>, <<1, 0>>, <<0, 1>>, <<1, 1>>}

\* Title of row r in the ranker runs: "a", "aa", "aaa", ...
RowTitle(r) == [k \in 1..(r + 1) |-> "a"]

RowIndex(n) == [k \in 1..n |-> <<RowTitle(k - 1), k - 1>>]

TopNs == (0 - MaxTopN)..MaxTopN

LoadForRanker ==
    \E n \in 1..MaxMatrixRows :
        \E mat \in [1..n -> FeatureVectors] :
            load_pickles(DfOf(RowIndex(n)), RowIndex(n), mat)

\* A call tfidf_recommend_titles(title, top_n) with the title of a row, or
\* with a title the resolver rejects.
RankCall ==
    /\ started
    /\ call.op = "idle"
    /\ \E title \in {df[k] : k \in 1..Len(df)} \cup {<<"b">>} :
          \E top_n \in TopNs :
              \E tie \in Perms(Len(df)) :
                  call' = [op |-> "rank", title |-> title, top_n |-> top_n,
                           result |-> tfidf_recommend_titles(title, top_n, tie)]
    /\ UNCHANGED <<index_vars, started, req>>

NextRanker == LoadForRanker \/ RankCall

SpecRanker == Init /\ [][NextRanker]_vars

-----------------------------------------------------------------------------
(* The catalog (TMDB) and its client.  A response of the catalog to one    *)
(* GET is [kind, results, details]: kind "ok" is HTTP 200 with the body's  *)
(* "results" list (search, discover) or the movie fields (details); kind   *)
(* "status" is any other HTTP status; kind "transport" is a timeout or a   *)
(* connection failure inside httpx.                                        *)

OkResults(results) == [kind |-> "ok", results |-> results, details |-> NoDetails]
OkDetails(title, genres) ==
    [kind |-> "ok", results |-> <<>>,
     details |-> [title |-> title, genres |-> genres]]
StatusError == [kind |-> "status", results |-> <<>>, details |-> NoDetails]
TransportError == [kind |-> "transport", results |-> <<>>, details |-> NoDetails]

\* What a call raises: an HTTPException, or the httpx exception that
\* tmdb_get does not catch.
Raised(x) == x.kind # "ok"
HttpxError == [kind |-> "httpx", val |-> 0]

\* A tmdb_get that reports a non-200 status as 404 (not the code).
tmdb_get_404(resp) ==
    CASE resp.kind = "ok" -> [kind |-> "ok", val |-> resp]
      [] resp.kind = "status" -> [kind |-> "HTTPException", val |-> 404]
      [] resp.kind = "transport" -> [kind |-> "httpx", val |-> 0]

\* tmdb_get: the body on HTTP 200, HTTPException(502) on any other status;
\* an httpx timeout or transport error leaves client.get as it is.
tmdb_get(resp) ==
    CASE resp.kind = "ok" -> Ok(resp)
      [] resp.kind = "status" -> HTTPException(502)
      [] resp.kind = "transport" -> HttpxError

\* tmdb_search_first: data["results"][0] if data.get("results") else None
tmdb_search_first(resp) ==
    LET data == tmdb_get(resp)
    IN  IF Raised(data) THEN data
        ELSE IF data.val.results # <<>> THEN Ok(Some(data.val.results[1]))
        ELSE Ok(Absent)

\* tmdb_movie_details: the details of the body.
tmdb_movie_details(resp) ==
    LET data == tmdb_get(resp)
    IN  IF Raised(data) THEN data ELSE Ok(data.val.details)

\* Python's seq[:n]: the first n elements, or all but the last -n if n < 0.
PyPrefix(seq, n) ==
    IF n >= 0
    THEN SubSeq(seq, 1, IF n < Len(seq) THEN n ELSE Len(seq))
    ELSE SubSeq(seq, 1, IF Len(seq) + n > 0 THEN Len(seq) + n ELSE 0)

CardOf(m) == [tmdb_id |-> m.id, title |-> m.title]

\* tmdb_cards_from_results: a card for each of (results or [])[:limit]
tmdb_cards_from_results(results, limit) ==
    LET cut == PyPrefix(results, limit)
    IN  [k \in 1..Len(cut) |-> CardOf(cut[k])]

\* attach_tmdb_card_by_title: the card of the first search result; None if
\* there is none or if anything was raised (except Exception).
attach_tmdb_card_by_title(resp) ==
    LET m == tmdb_search_first(resp)
    IN  IF Raised(m) THEN NoCard
        ELSE IF m.val.kind = "none" THEN NoCard
        ELSE CardOf(m.val.val)

-----------------------------------------------------------------------------
(* search_bundle, the handler of GET /movie/search.  The handler runs      *)
(* without interruption between two awaits of a catalog call; one action   *)
(* is the arrival of the awaited response and everything up to the next    *)
(* await or to the end of the request.                                     *)

\* What FastAPI sends for an exception leaving the handler: the status of an
\* HTTPException, 500 for any other exception.
ErrorResponse(exc) ==
    [status |-> IF exc.kind = "HTTPException" THEN exc.val ELSE 500,
     bundle |-> NoBundle]

TFIDFRecItem(title, score, card) ==
    [title |-> title, score |-> score, tmdb |-> card]

\* Fallback items from every genre card, whatever tfidf_top_n (not the code).
FallbackItems_uncut(genre_recs, tfidf_top_n) ==
    [k \in 1..Len(genre_recs) |->
        [title |-> genre_recs[k].title, score |-> 0, tmdb |-> genre_recs[k]]]

\* for c in genre_recs[:tfidf_top_n]: TFIDFRecItem(c.title, 0.0, c)
FallbackItems(genre_recs, tfidf_top_n) ==
    LET cut == PyPrefix(genre_recs, tfidf_top_n)
    IN  [k \in 1..Len(cut) |-> TFIDFRecItem(cut[k].title, 0, cut[k])]

\* The end of search_bundle without the fallback (not the code).
Finish_nofallback(rq, genre_recs) ==
    [rq EXCEPT
        !.pc = "done",
        !.genre_recs = genre_recs,
        !.response =
            [status |-> 200,
             bundle |-> [query |-> rq.query,
                         movie_details |-> rq.details,
                         tfidf_recommendations |-> rq.tfidf_items,
                         genre_recommendations |-> genre_recs]]]

\* The end of search_bundle: the guaranteed fallback and the response.
Finish(rq, genre_recs) ==
    LET items == IF rq.tfidf_items = <<>> /\ genre_recs # <<>>
                 THEN FallbackItems(genre_recs, rq.tfidf_top_n)
                 ELSE rq.tfidf_items
    IN  [rq EXCEPT
            !.pc = "done",
            !.genre_recs = genre_recs,
            !.tfidf_items = items,
            !.response =
                [status |-> 200,
                 bundle |-> [query |-> rq.query,
                             movie_details |-> rq.details,
                             tfidf_recommendations |-> items,
                             genre_recommendations |-> genre_recs]]]

Fail(rq, exc) == [rq EXCEPT !.pc = "done", !.response = ErrorResponse(exc)]

\* From the end of the enrichment loop: await the discover call if the
\* details carry a genre, else finish with no genre cards.
GenreStep(rq) ==
    IF rq.details.genres # <<>>
    THEN [rq EXCEPT !.pc = "await_genre"]
    ELSE Finish(rq, <<>>)

OrEmpty(r) == IF Raised(r) THEN <<>> ELSE r.val

\* try: recs = tfidf_recommend_titles(details.title, tfidf_top_n)
\* except Exception: recs = []
LocalRecs(title, top_n, tie) ==
    OrEmpty(tfidf_recommend_titles(title, top_n, tie))

Logged(rq, what, resp) ==
    [rq EXCEPT !.log = Append(rq.log, [call |-> what, resp |-> resp])]

\* The locals of search_bundle(query, tfidf_top_n, genre_limit) at its first
\* await.
Started(query, top_n, limit) ==
    [IdleRequest EXCEPT !.pc = "await_search", !.query = query,
                        !.tfidf_top_n = top_n, !.genre_limit = limit]

\* A request arrives: search_bundle starts and awaits tmdb_search_first.
Arrive(r, query, top_n, limit) ==
    /\ started
    /\ req[r].pc = "idle"
    /\ req' = [req EXCEPT ![r] = Started(query, top_n, limit)]
    /\ UNCHANGED <<index_vars, started, call>>

\* Lines 251-255: 404 if there is no result, else the await of
\* tmdb_movie_details(best["id"]).
AfterSearch(rq, best) ==
    IF Raised(best) THEN Fail(rq, best)
    ELSE IF best.val.kind = "none" THEN Fail(rq, HTTPException(404))
    ELSE [rq EXCEPT !.pc = "await_details"]

SearchStep(rq, resp) ==
    AfterSearch(Logged(rq, "search", resp), tmdb_search_first(resp))

\* The response to tmdb_search_first(query).
SearchReturns(r, resp) ==
    /\ req[r].pc = "await_search"
    /\ req' = [req EXCEPT ![r] = SearchStep(req[r], resp)]
    /\ UNCHANGED <<index_vars, started, call>>

\* Lines 263-274 up to the next await: the first enrichment if there is a
\* similarity hit, else the genre step.
AfterRanking(rq, details, recs) ==
    LET rq2 == [rq EXCEPT !.details = details, !.recs = recs]
    IN  IF recs # <<>> THEN [rq2 EXCEPT !.pc = "await_enrich"]
        ELSE GenreStep(rq2)

\* Lines 255-261: the details, or their exception; then the local ranking.
AfterDetails(rq, details, tie) ==
    IF Raised(details) THEN Fail(rq, details)
    ELSE AfterRanking(rq, details.val,
                      LocalRecs(details.val.title, rq.tfidf_top_n, tie))

DetailsStep(rq, resp, tie) ==
    AfterDetails(Logged(rq, "details", resp), tmdb_movie_details(resp), tie)

\* A handler whose recs list is one module-level list: the ranking of one
\* request replaces the list of every request that is enriching (not the
\* code).
DetailsReturns_shared(r, resp, tie) ==
    /\ req[r].pc = "await_details"
    /\ req' = [s \in Requests |->
                  IF s = r THEN DetailsStep(req[r], resp, tie)
                  ELSE IF req[s].pc = "await_enrich" /\ req[s].tfidf_items = <<>>
                       THEN [req[s] EXCEPT
                                !.recs = DetailsStep(req[r], resp, tie).recs]
                  ELSE req[s]]
    /\ UNCHANGED <<index_vars, started, call>>

\* The response to tmdb_movie_details: the local ranking, then the await of
\* the first enrichment, of the discover call, or the end of the request.
DetailsReturns(r, resp, tie) ==
    /\ req[r].pc = "await_details"
    /\ req' = [req EXCEPT ![r] = DetailsStep(req[r], resp, tie)]
    /\ UNCHANGED <<index_vars, started, call>>

\* Lines 263-265, one turn of the loop: the item of the next similarity hit
\* with its card or None; then the next turn or the genre step.
AfterEnrich(rq, hit, card) ==
    LET rq2 == [rq EXCEPT !.tfidf_items =
                   Append(rq.tfidf_items,
                          TFIDFRecItem(hit.title, hit.score, card))]
    IN  IF Len(rq2.tfidf_items) < Len(rq2.recs) THEN rq2 ELSE GenreStep(rq2)

EnrichStep(rq, resp) ==
    AfterEnrich(Logged(rq, "enrich", resp),
                rq.recs[Len(rq.tfidf_items) + 1],
                attach_tmdb_card_by_title(resp))

\* An enrichment whose failed lookup ends the request (not the code).
EnrichReturns_abort(r, resp) ==
    /\ req[r].pc = "await_enrich"
    /\ req' = [req EXCEPT ![r] =
                  IF Raised(tmdb_search_first(resp))
                  THEN Fail(Logged(req[r], "enrich", resp),
                            tmdb_search_first(resp))
                  ELSE EnrichStep(req[r], resp)]
    /\ UNCHANGED <<index_vars, started, call>>

\* The response to attach_tmdb_card_by_title for the next similarity hit.
EnrichReturns(r, resp) ==
    /\ req[r].pc = "await_enrich"
    /\ req' = [req EXCEPT ![r] = EnrichStep(req[r], resp)]
    /\ UNCHANGED <<index_vars, started, call>>

\* Lines 270-288: the genre cards, the fallback and the bundle.
AfterGenre(rq, d) ==
    IF Raised(d) THEN Fail(rq, d)
    ELSE Finish(rq, tmdb_cards_from_results(d.val.results, rq.genre_limit))

GenreResult(rq, resp) == AfterGenre(Logged(rq, "genre", resp), tmdb_get(resp))

\* The response to tmdb_get("/discover/movie").
GenreReturns(r, resp) ==
    /\ req[r].pc = "await_genre"
    /\ req' = [req EXCEPT ![r] = GenreResult(req[r], resp)]
    /\ UNCHANGED <<index_vars, started, call>>

-----------------------------------------------------------------------------
(* Environment of the /movie/search runs.                                  *)

Movie(n) == [id |-> n, title |-> <<"m", "o", "v", "i", "e">> \o RowTitle(n)]

FirstMovies(n) == [k \in 1..n |-> Movie(k)]

\* Titles the catalog's details carry: an exact key of the index after
\* normalization, a near miss of a key, and a title unknown to the index.
CatalogTitles == { <<"A">>, <<"a", "a", "b">>, <<"b">> }

GenreLists == { <<>>, <<7>>, <<7, 9>> }

FailedResponses == {StatusError, TransportError}

SearchResponses ==
    {OkResults(<<>>), OkResults(<<Movie(1)>>), OkResults(<<Movie(2), Movie(1)>>)}
        \cup FailedResponses

DetailsResponses ==
    {OkDetails(t, g) : t \in CatalogTitles, g \in GenreLists}
        \cup FailedResponses

GenreResponses ==
    {OkResults(FirstMovies(n)) : n \in 0..MaxGenreResults} \cup FailedResponses

GenreLimits == {0 - 1} \cup 0..MaxGenreLimit

\* The index of the /movie/search runs: three rows; from row 0 the other two
\* rows tie in the first matrix and differ in the second.
SearchMatrices ==
    { << <<1, 1>>, <<1, 0>>, <<0, 1>> >>, << <<1, 0>>, <<1, 1>>, <<0, 1>> >> }

LoadForSearch ==
    \E mat \in SearchMatrices :
        load_pickles(DfOf(RowIndex(Len(mat))), RowIndex(Len(mat)), mat)

RequestSteps(r, searches, detailses, enriches, genres) ==
    \/ \E resp \in searches : SearchReturns(r, resp)
    \/ \E resp \in detailses : \E tie \in Perms(Len(df)) :
          DetailsReturns(r, resp, tie)
    \/ \E resp \in enriches : EnrichReturns(r, resp)
    \/ \E resp \in genres : GenreReturns(r, resp)

\* One request, every input and every catalog response.
Next ==
    \/ LoadForSearch
    \/ \E top_n \in TopNs : \E limit \in GenreLimits :
          Arrive("r1", "q1", top_n, limit)
    \/ RequestSteps("r1", SearchResponses, DetailsResponses,
                     SearchResponses, GenreResponses)

Spec == Init /\ [][Next]_vars

\* Two requests in flight at once, interleaved at their awaits.
ConcurrentTopNs == {0, MaxTopN}

ConcurrentDetails ==
    {OkDetails(<<"A">>, <<7>>), OkDetails(<<"b">>, <<7>>),
     OkDetails(<<"A">>, <<>>)}

ConcurrentSearches == {OkResults(<<>>), OkResults(<<Movie(1)>>), StatusError}

ConcurrentEnriches == {OkResults(<<Movie(2)>>), OkResults(<<>>), TransportError}

ConcurrentGenres ==
    {OkResults(FirstMovies(MaxGenreResults)), StatusError, TransportError}

QueryOf(r) == IF r = "r1" THEN "q1" ELSE "q2"

NextConcurrent ==
    \/ LoadForSearch
    \/ \E r \in Requests : \E top_n \in ConcurrentTopNs :
          Arrive(r, QueryOf(r), top_n, MaxGenreLimit)
    \/ \E r \in Requests :
          RequestSteps(r, ConcurrentSearches, ConcurrentDetails,
                       ConcurrentEnriches, ConcurrentGenres)

SpecConcurrent == Init /\ [][NextConcurrent]_vars

-----------------------------------------------------------------------------
(* search_bundle properties (under Spec).                                  *)

Done(r) == req[r].pc = "done"
Returned(r) == Done(r) /\ req[r].response.status = 200
BundleOf(r) == req[r].response.bundle

\* The responses the request got to its calls of one kind, in order.
Responses(r, what) ==
    LET calls == SelectSeq(req[r].log, LAMBDA e : e.call = what)
    IN  [k \in 1..Len(calls) |-> calls[k].resp]

\* The request got the details of its movie.
HasDetails(r) ==
    Responses(r, "details") # <<>> /\ Responses(r, "details")[1].kind = "ok"

Smaller(a, b) == IF a < b THEN a ELSE b

\* C2 as stated: whenever the similarity step yields no item and genre
\* discovery yields a card, tfidf_recommendations has exactly
\* min(tfidf_top_n, number of genre cards) items, each with score 0.0, item k
\* carrying genre card k as its tmdb and title.
C2_FallbackLaw ==
    \A r \in Requests :
        Returned(r) /\ req[r].recs = <<>>
                    /\ BundleOf(r).genre_recommendations # <<>> =>
            LET items == BundleOf(r).tfidf_recommendations
                cards == BundleOf(r).genre_recommendations
            IN  /\ Len(items) = Smaller(req[r].tfidf_top_n, Len(cards))
                /\ \A k \in 1..Len(items) :
                      /\ items[k].score = 0
                      /\ items[k].tmdb = cards[k]
                      /\ items[k].title = cards[k].title

\* C2 amended: in that case tfidf_recommendations has min(tfidf_top_n, cards)
\* items when tfidf_top_n >= 0 and max(0, cards + tfidf_top_n) items when
\* tfidf_top_n < 0; each has score 0.0 and item k carries genre card k as its
\* tmdb and title.
C2_FallbackLawSliced ==
    \A r \in Requests :
        Returned(r) /\ req[r].recs = <<>>
                    /\ BundleOf(r).genre_recommendations # <<>> =>
            LET items == BundleOf(r).tfidf_recommendations
                cards == BundleOf(r).genre_recommendations
                n == req[r].tfidf_top_n
            IN  /\ n >= 0 => Len(items) = Smaller(n, Len(cards))
                /\ n < 0 => Len(items) = Len(cards) - Smaller(0 - n, Len(cards))
                /\ \A k \in 1..Len(items) :
                      /\ items[k].score = 0
                      /\ items[k].tmdb = cards[k]
                      /\ items[k].title = cards[k].title

\* C2 witness: a bundle built by the fallback from fewer cards than genre
\* discovery returned.
C2_Witness ==
    \E r \in Requests :
        /\ Returned(r)
        /\ req[r].recs = <<>>
        /\ BundleOf(r).tfidf_recommendations # <<>>
        /\ Len(BundleOf(r).tfidf_recommendations)
              < Len(BundleOf(r).genre_recommendations)

\* The first catalog call found no movie for the query.
NoHit(r) ==
    /\ Responses(r, "search") # <<>>
    /\ Responses(r, "search")[1].kind = "ok"
    /\ Responses(r, "search")[1].results = <<>>

\* The Title Resolver rejects the title of the request's details.
LocalTitleUnknown(r) ==
    HasDetails(r)
        /\ Raised(get_local_idx_by_title(req[r].details.title, TITLE_TO_IDX))

\* C3: a request ends with 404 exactly if tmdb_search_first found nothing
\* for the query; when the Title Resolver rejects the title the request goes
\* on with an empty similarity list.
C3_NotFoundOnlyFromCatalog ==
    \A r \in Requests :
        /\ Done(r) => (req[r].response.status = 404 <=> NoHit(r))
        /\ LocalTitleUnknown(r) =>
                req[r].recs = <<>> /\ req[r].response.status # 404

\* C3 witness: a bundle was returned although the Title Resolver raised 404
\* for the title.
C3_Witness ==
    \E r \in Requests : Returned(r) /\ LocalTitleUnknown(r)

\* A call of step 1, 2 or 5 got a non-200 status or failed in transport.
CoreCallFailed(r) ==
    \E k \in 1..Len(req[r].log) :
        /\ req[r].log[k].call \in {"search", "details", "genre"}
        /\ req[r].log[k].resp.kind # "ok"

\* C4 as stated: a failed catalog call of step 1, 2 or 5 ends the request
\* with 502, and a request ends with a bundle, 404 or 502 only.
C4_UpstreamFailureIs502 ==
    \A r \in Requests :
        /\ CoreCallFailed(r) => Done(r) /\ req[r].response.status = 502
        /\ Done(r) => req[r].response.status \in {200, 404, 502}

\* The card item k must carry given the response to its own lookup.
CardFor(resp) ==
    IF resp.kind = "ok" /\ resp.results # <<>>
    THEN [tmdb_id |-> resp.results[1].id, title |-> resp.results[1].title]
    ELSE NoCard

\* C5: when the ranker returned hits, the items follow the hits in length,
\* title, score and order; item k has no card exactly if its own lookup
\* failed or found nothing; no failed lookup ends the request, and the
\* bundle carries these items.
C5_EnrichmentIndependent ==
    \A r \in Requests :
        req[r].recs # <<>> =>
            LET items == req[r].tfidf_items
                looked == Responses(r, "enrich")
            IN  /\ Len(items) = Len(looked)
                /\ Len(items) <= Len(req[r].recs)
                /\ \A k \in 1..Len(items) :
                      /\ items[k].title = req[r].recs[k].title
                      /\ items[k].score = req[r].recs[k].score
                      /\ items[k].tmdb = CardFor(looked[k])
                /\ req[r].pc = "await_enrich" <=> Len(items) < Len(req[r].recs)
                /\ Done(r) /\ req[r].response.status # 200 =>
                      req[r].log[Len(req[r].log)].call = "genre"
                /\ Returned(r) => BundleOf(r).tfidf_recommendations = items

\* C5 witness: a bundle with two ranked hits whose first lookup failed in
\* transport and whose second lookup found a card.
C5_Witness ==
    \E r \in Requests :
        /\ Returned(r)
        /\ Len(req[r].recs) = 2
        /\ Responses(r, "enrich")[1].kind = "transport"
        /\ BundleOf(r).tfidf_recommendations[1].tmdb = NoCard
        /\ BundleOf(r).tfidf_recommendations[2].tmdb # NoCard

\* C6 as stated: in every bundle, for any tfidf_top_n and genre_limit, if
\* genre_recommendations is non-empty then tfidf_recommendations is too.
C6_NeverEmptyHanded ==
    \A r \in Requests :
        Returned(r) /\ BundleOf(r).genre_recommendations # <<>> =>
            BundleOf(r).tfidf_recommendations # <<>>

\* C6 amended: the same for every request with tfidf_top_n >= 1.
C6_NeverEmptyHandedFromOne ==
    \A r \in Requests :
        Returned(r) /\ req[r].tfidf_top_n >= 1
                    /\ BundleOf(r).genre_recommendations # <<>> =>
            BundleOf(r).tfidf_recommendations # <<>>

\* C6 witness: a bundle with tfidf_top_n >= 1 whose similarity step found
\* nothing and whose similarity list was filled from the genre cards.
C6_Witness ==
    \E r \in Requests :
        /\ Returned(r)
        /\ req[r].tfidf_top_n >= 1
        /\ req[r].recs = <<>>
        /\ BundleOf(r).genre_recommendations # <<>>
        /\ BundleOf(r).tfidf_recommendations # <<>>

-----------------------------------------------------------------------------
(* Concurrent requests (under SpecConcurrent).                             *)

\* search_bundle run alone from rq on the responses log[k..], under the
\* build's tie order.
RECURSIVE RunAlone(_, _, _, _)
RunAlone(rq, log, k, tie) ==
    IF k > Len(log) THEN rq
    ELSE RunAlone(
            CASE log[k].call = "search" -> SearchStep(rq, log[k].resp)
              [] log[k].call = "details" -> DetailsStep(rq, log[k].resp, tie)
              [] log[k].call = "enrich" -> EnrichStep(rq, log[k].resp)
              [] log[k].call = "genre" -> GenreResult(rq, log[k].resp),
            log, k + 1, tie)

\* The request is where it would be had it run alone on the same index, with
\* the same inputs and the same catalog responses.
AsAlone(r) ==
    \E tie \in Perms(Len(df)) :
        req[r] = RunAlone(Started(QueryOf(r), req[r].tfidf_top_n,
                                  req[r].genre_limit),
                          req[r].log, 1, tie)

\* C10: after the startup load no step writes df, TITLE_TO_IDX or
\* tfidf_matrix, and under any interleaving each request's state and bundle
\* are those of the request run alone on the same index and responses.
C10_RequestsIsolated ==
    /\ [](\A r \in Requests : req[r].pc # "idle" => AsAlone(r))
    /\ [][started => index_vars' = index_vars]_vars

\* C10 witness: both requests are in flight, one suspended in the middle of
\* its enrichment loop and the other at its discover call, each with its own
\* items.
C10_Witness ==
    /\ req["r1"].pc = "await_enrich"
    /\ req["r1"].tfidf_items # <<>>
    /\ req["r2"].pc = "await_genre"
    /\ req["r2"].tfidf_items # <<>>
    /\ req["r1"].tfidf_items # SubSeq(req["r2"].tfidf_items, 1,
                                       Len(req["r1"].tfidf_items))

-----------------------------------------------------------------------------
(* Similarity Ranker properties (under SpecRanker).                        *)

Ranked == started /\ call.op = "rank" /\ call.result.kind = "ok"

RankedIdx == get_local_idx_by_title(call.title, TITLE_TO_IDX).val

\* C1 as stated: for every resolved row and every top_n >= 0 the returned
\* list never contains the query row, has at most top_n items, and its scores
\* are in non-increasing order.
C1_RankContract ==
    Ranked /\ call.top_n >= 0 =>
        LET out == call.result.val
        IN  /\ \A k \in 1..Len(out) : out[k].row # RankedIdx
            /\ Len(out) <= call.top_n
            /\ \A k \in 1..(Len(out) - 1) : out[k].score >= out[k + 1].score

\* C9 as stated: of two returned rows with equal score the one with the
\* smaller row index is listed first.
C9_TiesInRowOrder ==
    Ranked =>
        LET out == call.result.val
        IN  \A j, k \in 1..Len(out) :
                j < k /\ out[j].score = out[k].score => out[j].row < out[k].row

-----------------------------------------------------------------------------
(* Title Resolver properties (under SpecResolver).                         *)

Resolved == started /\ call.op = "resolve"

\* Positions of indices whose title is exactly t.
EntriesOf(t) == {k \in 1..Len(indices) : indices[k][1] = t}

\* Positions of indices whose title normalizes as t does.
SameKeyEntries(t) ==
    {k \in 1..Len(indices) : _norm_title(indices[k][1]) = _norm_title(t)}

SetMax(S) == CHOOSE x \in S : \A y \in S : y <= x

\* C7 as stated: for every title t of the loaded title-to-row mapping,
\* get_local_idx_by_title(t) returns the row the mapping assigns to t, also
\* when several loaded titles differ only in case or surrounding whitespace.
C7_ExactRowOfLoadedTitle ==
    Resolved =>
        \A k \in EntriesOf(call.title) : call.result = Ok(indices[k][2])

\* C7 amended: for every title t of the loaded mapping the resolver returns
\* the row of the last-loaded entry whose title normalizes as t does; that is
\* the row the mapping assigns to t when no other loaded title has the same
\* normalized form.
C7_LastLoadedRowOfKey ==
    Resolved /\ EntriesOf(call.title) # {} =>
        /\ call.result = Ok(indices[SetMax(SameKeyEntries(call.title))][2])
        /\ (Cardinality(SameKeyEntries(call.title)) = 1 =>
                \A k \in EntriesOf(call.title) : call.result = Ok(indices[k][2]))

\* C7 witness: a loaded title was resolved while a later-loaded title with
\* the same normalized form exists, and the later row came back.
C7_Witness ==
    /\ Resolved
    /\ \E k \in EntriesOf(call.title) :
          \E m \in SameKeyEntries(call.title) :
              /\ m > k
              /\ indices[m][2] # indices[k][2]
              /\ call.result = Ok(indices[SetMax(SameKeyEntries(call.title))][2])

\* Keys of the index whose ratio to the normalized title reaches the floor.
KeysAtFloor(t) ==
    {x \in DOMAIN TITLE_TO_IDX :
        ratio(x, _norm_title(t))[1] * CutoffDen
            >= CutoffNum * ratio(x, _norm_title(t))[2]}

\* C8: for a normalized title that is no key of the index, if exactly one key
\* has ratio >= 0.6 the resolver returns that key's row; if several have, the
\* key whose row is returned has the highest ratio; if every key is below 0.6
\* the resolver fails with 404.
C8_FuzzyFloor ==
    Resolved /\ _norm_title(call.title) \notin DOMAIN TITLE_TO_IDX =>
        LET near == KeysAtFloor(call.title)
            w == _norm_title(call.title)
        IN  /\ (Cardinality(near) = 1 =>
                    \A x \in near : call.result = Ok(TITLE_TO_IDX[x]))
            /\ (near = {} => call.result = HTTPException(404))
            /\ (near # {} =>
                    \E x \in near :
                        /\ call.result = Ok(TITLE_TO_IDX[x])
                        /\ \A y \in near :
                              ratio(y, w)[1] * ratio(x, w)[2]
                                  <= ratio(x, w)[1] * ratio(y, w)[2])

\* C8 witness: an unknown title was resolved through its only key at the
\* floor, of ratio exactly 0.6, while another key of the index stayed below.
C8_Witness ==
    /\ Resolved
    /\ _norm_title(call.title) \notin DOMAIN TITLE_TO_IDX
    /\ Cardinality(KeysAtFloor(call.title)) = 1
    /\ Cardinality(DOMAIN TITLE_TO_IDX) > 1
    /\ \A x \in KeysAtFloor(call.title) :
          /\ ratio(x, _norm_title(call.title))[1] * CutoffDen
                = CutoffNum * ratio(x, _norm_title(call.title))[2]
          /\ call.result = Ok(TITLE_TO_IDX[x])

=============================================================================
